---- MODULE Spec2Model ----
(***************************************************************************)
(* Model of add_cpg_counts.py: BamMethylData.start_threads, the region     *)
(* resolver set_regions, the per-region job proc_chr and the header        *)
(* extraction proc_header.  File paths are sequences of string tokens, the *)
(* file system is the set of paths that exist.  External commands are      *)
(* black boxes whose exit status is a nondeterministic choice.             *)
(***************************************************************************)
EXTENDS Integers, Sequences, FiniteSets, TLC

\* ---------------------------------------------------------------- bounds
\* number of contig names that may occur in the bam file or the reference
NumContigs == 3
\* largest worker pool size (args.threads) tried
MaxThreads == 2
\* largest number of bam files on main's command line
MaxFiles == 2

\* ------------------------------------------------------------- constants
\* Python's None; every path and every region string is a non-empty sequence
None == <<>>

BAM_SUFF == ".bam"

\* contig names in the reference genome's canonical order; a name is a
\* sequence of tokens, so that appending a name to a path is a concatenation
\* (a contig may be called anything: the second name is the first one
\* followed by "_unsorted")
ContigNames == <<(<<"chr1">>), (<<"chr1", "_unsorted">>), (<<"chr2">>),
                 (<<"chrX">>), (<<"chrM">>)>>

Contigs == {ContigNames[i] : i \in 1..NumContigs}

\* explicit regions a user may pass (gr.region_str), as token sequences
ExplicitRegions == {<<"chr1", ":", "100", "-", "200">>, <<"chr2">>}

\* op.join(out_dir, op.basename(bam_path)[:-4])
name == <<"out/", "sample">>

\* args.suffix (default "counts")
suffix == "counts"

\* ------------------------------------------------------- pure functions
\* str.replace on a token sequence
Replace(s, old, new) == [i \in 1..Len(s) |-> IF s[i] = old THEN new ELSE s[i]]

\* position of a contig in the canonical order (init_genome.chromosome_order)
chromosome_order(c) == CHOOSE i \in 1..Len(ContigNames) : ContigNames[i] = c

\* sorted(S, key=chromosome_order)
RECURSIVE SortedByKey(_)
SortedByKey(S) ==
    IF S = {} THEN <<>>
    ELSE LET m == CHOOSE x \in S :
                    \A y \in S : chromosome_order(x) <= chromosome_order(y)
         IN  <<m>> \o SortedByKey(S \ {m})

\* set(bam_chroms) & set(ref_chroms)
IntersectUnion(a, b) == a \cup b
Intersect(a, b) == a \cap b

\* set_regions: [raised |-> exception raised?, val |-> the returned list]
set_regions(region_str, idxstats_ok, bam_chroms, ref_chroms) ==
    IF region_str # None
    THEN [raised |-> FALSE, val |-> <<region_str>>]
    ELSE IF ~idxstats_ok \/ bam_chroms = {}
    THEN [raised |-> FALSE, val |-> <<>>]
    ELSE LET intersected_chroms == Intersect(bam_chroms, ref_chroms)
         IN  IF intersected_chroms = {}
             THEN [raised |-> TRUE, val |-> <<>>]
             ELSE [raised |-> FALSE, val |-> SortedByKey(intersected_chroms)]

\* paths built by string concatenation
header_path == name \o <<".header">>
unsorted_bam(out_path_name) == out_path_name \o <<"_unsorted", ".output.bam">>
out_path(out_path_name) == out_path_name \o <<".output.bam">>

final_path(region_str) ==
    IF region_str = None
    THEN name \o <<".", suffix, BAM_SUFF>>
    ELSE name \o <<".">> \o Replace(Replace(region_str, ":", "_"), "-", "_")
              \o <<".", suffix, BAM_SUFF>>

\* subprocess_wrap(cmd, debug): a non-zero exit status of the command
\* propagates as an exception
subprocess_wrap(exit_ok) == [raised |-> ~exit_ok]

\* files the pipeline command of proc_chr writes (the "> unsorted_bam")
CmdWritesHeaderToo(out_path_name) == {unsorted_bam(out_path_name), header_path}
CmdWrites(out_path_name) == {unsorted_bam(out_path_name)}

\* file the sort command of proc_chr writes ("-o out_path")
SortWritesInPlace(out_path_name) == {unsorted_bam(out_path_name)}
SortWrites(out_path_name) == {out_path(out_path_name)}

\* ------------------------------------------------------------------ state
VARIABLES
    cfg,          \* the run's inputs: region_str, threads, the bam file's
                  \* contigs, the reference contigs, idxstats exit status
    pc,           \* position of start_threads
    fs,           \* paths that exist in the output directory
    regions,      \* the list set_regions returned
    processes,    \* one record per job: region, out_path_name, st
    completed,    \* job indexes in the order the jobs reached a terminal state
    res,          \* the result list of start_threads
    outcome,      \* how the run ended ("running" until then)
    mergeArgs,    \* the per-region artifacts handed to samtools merge
    mergeStatus,  \* "none", "ok", "failed"
    indexStatus,  \* "none", "ok", "failed"
    removed,      \* paths deleted by the final os.remove pass
    hdrWrites,    \* number of commands that wrote header_path
    mainSt,       \* add_cpg_counts.main: its argument list and loop position
    view,         \* cview: the pipeline of one view command and its result
    beta          \* beta2bw: the BetaToBigWig instance and its file loop

\* the state of the other programs, which a step of start_threads leaves alone
others == <<mainSt, view, beta>>

vars == <<cfg, pc, fs, regions, processes, completed, res, outcome, mergeArgs,
          mergeStatus, indexStatus, removed, hdrWrites>>

\* values of the other programs' state while they are not running
MainIdle == [pc |-> "idle"]
ViewIdle == [pc |-> "idle"]
BetaIdle == [pc |-> "idle"]

JobStates == {"queued", "cmd", "sort", "rm", "returned", "raised", "killed"}
Terminal == {"returned", "raised"}
InFlight == {"cmd", "sort", "rm"}

RaisedOutcomes == {"raised:proc_header", "raised:set_regions", "raised:empty",
                   "raised:get", "raised:proc_chr", "raised:remove"}

Job(region, out_path_name, st) ==
    [region |-> region, out_path_name |-> out_path_name, st |-> st]

SetSt(i, st) == [processes EXCEPT ![i].st = st]

NumRunning == Cardinality({i \in 1..Len(processes) : processes[i].st \in InFlight})

Init ==
    /\ cfg \in [region_str : {None} \cup ExplicitRegions,
                threads : 1..MaxThreads,
                idxstats_ok : BOOLEAN,
                bam_chroms : SUBSET Contigs,
                ref_chroms : (SUBSET Contigs) \ {{}}]
    /\ pc = "header"
    /\ fs = {}
    /\ regions = <<>>
    /\ processes = <<>>
    /\ completed = <<>>
    /\ res = <<>>
    /\ outcome = "running"
    /\ mergeArgs = <<>>
    /\ mergeStatus = "none"
    /\ indexStatus = "none"
    /\ removed = {}
    /\ hdrWrites = 0
    /\ mainSt = MainIdle
    /\ view = ViewIdle
    /\ beta = BetaIdle

\* line 165: "if self.gr.region_str is None" chooses the pool
UsePoolAlways(region_str) == TRUE
UsePool(region_str) == region_str = None

\* ------------------------------------------------------------ proc_header
\* start_threads line 164: samtools view -H bam > header_path
ProcHeader ==
    /\ pc = "header"
    /\ \E exit_ok \in BOOLEAN, created \in BOOLEAN :
        /\ exit_ok => created
        /\ fs' = IF created THEN fs \cup {header_path} ELSE fs
        /\ hdrWrites' = IF created THEN hdrWrites + 1 ELSE hdrWrites
        /\ IF subprocess_wrap(exit_ok).raised
           THEN /\ pc' = "done"
                /\ outcome' = "raised:proc_header"
           ELSE /\ pc' = IF UsePool(cfg.region_str) THEN "resolve" ELSE "inline"
                /\ outcome' = outcome
    /\ UNCHANGED others
    /\ UNCHANGED <<cfg, regions, processes, completed, res, mergeArgs,
                   mergeStatus, indexStatus, removed>>

\* --------------------------------------------------------------- proc_chr
\* Pool(threads): a task starts only while fewer than threads tasks run
WorkerFreeOneMore(running, threads) == running <= threads
WorkerFree(running, threads) == running < threads

\* a pool worker takes the oldest queued task when a worker is free
WorkerStart(i) ==
    /\ processes[i].st = "queued"
    /\ \A j \in 1..(i - 1) : processes[j].st # "queued"
    /\ WorkerFree(NumRunning, cfg.threads)
    /\ processes' = SetSt(i, "cmd")
    /\ UNCHANGED others
    /\ UNCHANGED <<cfg, pc, fs, regions, completed, res, outcome, mergeArgs,
                   mergeStatus, indexStatus, removed, hdrWrites>>

\* proc_chr line 61: the pipeline writing unsorted_bam
RunCmd(i) ==
    /\ processes[i].st = "cmd"
    /\ \E exit_ok \in BOOLEAN, created \in BOOLEAN :
        LET w == CmdWrites(processes[i].out_path_name) IN
        /\ exit_ok => created
        /\ fs' = IF created THEN fs \cup w ELSE fs
        /\ hdrWrites' = IF created /\ header_path \in w
                        THEN hdrWrites + 1 ELSE hdrWrites
        /\ IF subprocess_wrap(exit_ok).raised
           THEN /\ processes' = SetSt(i, "raised")
                /\ completed' = Append(completed, i)
           ELSE /\ processes' = SetSt(i, "sort")
                /\ completed' = completed
    /\ UNCHANGED others
    /\ UNCHANGED <<cfg, pc, regions, res, outcome, mergeArgs, mergeStatus,
                   indexStatus, removed>>

\* proc_chr line 62: samtools sort -o out_path unsorted_bam
RunSort(i) ==
    /\ processes[i].st = "sort"
    /\ \E exit_ok \in BOOLEAN, created \in BOOLEAN :
        /\ exit_ok => created
        /\ exit_ok => unsorted_bam(processes[i].out_path_name) \in fs
        /\ fs' = IF created THEN fs \cup SortWrites(processes[i].out_path_name)
                  ELSE fs
        /\ IF subprocess_wrap(exit_ok).raised
           THEN /\ processes' = SetSt(i, "raised")
                /\ completed' = Append(completed, i)
           ELSE /\ processes' = SetSt(i, "rm")
                /\ completed' = completed
    /\ UNCHANGED others
    /\ UNCHANGED <<cfg, pc, regions, res, outcome, mergeArgs, mergeStatus,
                   indexStatus, removed, hdrWrites>>

\* proc_chr lines 63-64: os.remove(unsorted_bam); return out_path
RemoveUnsorted(i) ==
    /\ processes[i].st = "rm"
    /\ IF unsorted_bam(processes[i].out_path_name) \in fs
       THEN /\ fs' = fs \ {unsorted_bam(processes[i].out_path_name)}
            /\ processes' = SetSt(i, "returned")
       ELSE /\ fs' = fs
            /\ processes' = SetSt(i, "raised")
    /\ completed' = Append(completed, i)
    /\ UNCHANGED others
    /\ UNCHANGED <<cfg, pc, regions, res, outcome, mergeArgs, mergeStatus,
                   indexStatus, removed, hdrWrites>>

\* ---------------------------------------------------------- start_threads
\* line 169: the iterable of the for loop, evaluated inside "with Pool"
SetRegions ==
    /\ pc = "resolve"
    /\ LET r == set_regions(cfg.region_str, cfg.idxstats_ok, cfg.bam_chroms,
                            cfg.ref_chroms)
       IN  IF r.raised
           THEN /\ pc' = "done"
                /\ outcome' = "raised:set_regions"
                /\ regions' = regions
           ELSE /\ pc' = "submit"
                /\ outcome' = outcome
                /\ regions' = r.val
    /\ UNCHANGED others
    /\ UNCHANGED <<cfg, fs, processes, completed, res, mergeArgs, mergeStatus,
                   indexStatus, removed, hdrWrites>>

\* lines 170-175 with every region submitted twice
SubmitTwice ==
    /\ pc = "submit"
    /\ Len(processes) < 2 * Len(regions)
    /\ LET c == regions[(Len(processes) \div 2) + 1]
       IN  processes' = Append(processes, Job(c, name \o <<"_">> \o c, "queued"))
    /\ UNCHANGED others
    /\ UNCHANGED <<cfg, pc, fs, regions, completed, res, outcome, mergeArgs,
                   mergeStatus, indexStatus, removed, hdrWrites>>

\* lines 170-175: one p.apply_async(proc_chr, params) per region, in order
Submit ==
    /\ pc = "submit"
    /\ Len(processes) < Len(regions)
    /\ LET c == regions[Len(processes) + 1]
       IN  processes' = Append(processes, Job(c, name \o <<"_">> \o c, "queued"))
    /\ UNCHANGED others
    /\ UNCHANGED <<cfg, pc, fs, regions, completed, res, outcome, mergeArgs,
                   mergeStatus, indexStatus, removed, hdrWrites>>

\* line 176: "if not processes"
EmptyCheckDropped(procs) == FALSE
EmptyCheck(procs) == procs = <<>>

\* lines 176-178: after the loop, raise on an empty list, else p.close()
AfterLoop ==
    /\ pc = "submit"
    /\ Len(processes) = Len(regions)
    /\ IF EmptyCheck(processes)
       THEN /\ pc' = "done"
            /\ outcome' = "raised:empty"
       ELSE /\ pc' = "join"
            /\ outcome' = outcome
    /\ UNCHANGED others
    /\ UNCHANGED <<cfg, fs, regions, processes, completed, res, mergeArgs,
                   mergeStatus, indexStatus, removed, hdrWrites>>

\* line 179: p.join() returns when every task has finished
JoinReturnsAtOnce(procs) == TRUE
JoinReturns(procs) == \A i \in 1..Len(procs) : procs[i].st \in Terminal

\* leaving the "with" block terminates the pool: unfinished tasks are killed
Terminate(procs) ==
    [i \in 1..Len(procs) |->
        IF procs[i].st \in Terminal THEN procs[i]
        ELSE [procs[i] EXCEPT !.st = "killed"]]

\* line 179 and the end of the with block
Join ==
    /\ pc = "join"
    /\ JoinReturns(processes)
    /\ processes' = Terminate(processes)
    /\ pc' = "collect"
    /\ UNCHANGED others
    /\ UNCHANGED <<cfg, fs, regions, completed, res, outcome, mergeArgs,
                   mergeStatus, indexStatus, removed, hdrWrites>>

\* pr.get(): the value proc_chr returned, or its exception re-raised
AsyncGetSwallow(job) == [exc |-> FALSE, val |-> out_path(job.out_path_name)]
AsyncGet(job) ==
    IF job.st = "returned"
    THEN [exc |-> FALSE, val |-> out_path(job.out_path_name)]
    ELSE [exc |-> TRUE, val |-> None]

\* line 180: [pr.get() for pr in processes]
GetAllByCompletion(procs, done) ==
    [k \in 1..Len(done) |-> AsyncGet(procs[done[k]])]
GetAll(procs, done) == [k \in 1..Len(procs) |-> AsyncGet(procs[k])]

\* line 180; get() blocks on a task that never finishes
Collect ==
    /\ pc = "collect"
    /\ \A i \in 1..Len(processes) : processes[i].st \in Terminal
    /\ LET got == GetAll(processes, completed)
       IN  IF \E k \in 1..Len(got) : got[k].exc
           THEN /\ pc' = "done"
                /\ outcome' = "raised:get"
                /\ res' = res
           ELSE /\ pc' = "check"
                /\ outcome' = outcome
                /\ res' = [k \in 1..Len(got) |-> got[k].val]
    /\ UNCHANGED others
    /\ UNCHANGED <<cfg, fs, regions, processes, completed, mergeArgs,
                   mergeStatus, indexStatus, removed, hdrWrites>>

\* lines 182-188: the explicit region is processed by an inline proc_chr call
InlineCall ==
    /\ pc = "inline"
    /\ processes' = <<Job(cfg.region_str, name \o <<"_", "1">>, "cmd")>>
    /\ pc' = "inline_wait"
    /\ UNCHANGED others
    /\ UNCHANGED <<cfg, fs, regions, completed, res, outcome, mergeArgs,
                   mergeStatus, indexStatus, removed, hdrWrites>>

\* line 185: the inline call returns its path or its exception propagates
InlineReturn ==
    /\ pc = "inline_wait"
    /\ processes[1].st \in Terminal
    /\ IF processes[1].st = "raised"
       THEN /\ pc' = "done"
            /\ outcome' = "raised:proc_chr"
            /\ res' = res
       ELSE /\ pc' = "check"
            /\ outcome' = outcome
            /\ res' = <<out_path(processes[1].out_path_name)>>
    /\ UNCHANGED others
    /\ UNCHANGED <<cfg, fs, regions, processes, completed, mergeArgs,
                   mergeStatus, indexStatus, removed, hdrWrites>>

\* lines 190-192: "if None in res: return"
Check ==
    /\ pc = "check"
    /\ IF \E k \in 1..Len(res) : res[k] = None
       THEN /\ pc' = "done"
            /\ outcome' = "threads_failed"
       ELSE /\ pc' = "merge"
            /\ outcome' = outcome
    /\ UNCHANGED others
    /\ UNCHANGED <<cfg, fs, regions, processes, completed, res, mergeArgs,
                   mergeStatus, indexStatus, removed, hdrWrites>>

\* lines 200-206: samtools merge; the exit status is not looked at
Merge ==
    /\ pc = "merge"
    /\ \E exit_ok \in BOOLEAN, created \in BOOLEAN :
        /\ exit_ok => created
        /\ exit_ok => /\ header_path \in fs
                      /\ \A k \in 1..Len(res) : res[k] \in fs
        /\ fs' = IF created THEN fs \cup {final_path(cfg.region_str)} ELSE fs
        /\ mergeStatus' = IF exit_ok THEN "ok" ELSE "failed"
    /\ mergeArgs' = res
    /\ pc' = "index"
    /\ UNCHANGED others
    /\ UNCHANGED <<cfg, regions, processes, completed, res, outcome,
                   indexStatus, removed, hdrWrites>>

\* lines 215-218: samtools index; the exit status is not looked at
Index ==
    /\ pc = "index"
    /\ \E exit_ok \in BOOLEAN :
        /\ exit_ok => final_path(cfg.region_str) \in fs
        /\ indexStatus' = IF exit_ok THEN "ok" ELSE "failed"
    /\ pc' = "cleanup"
    /\ UNCHANGED others
    /\ UNCHANGED <<cfg, fs, regions, processes, completed, res, outcome,
                   mergeArgs, mergeStatus, removed, hdrWrites>>

\* line 220: res.append(header_path)
CleanupListNoHeader(r, hdr) == r
CleanupList(r, hdr) == Append(r, hdr)

\* number of leading paths of l that os.remove deletes before one is missing
RECURSIVE RemovedPrefix(_, _)
RemovedPrefix(l, files) ==
    IF l = <<>> \/ Head(l) \notin files THEN 0
    ELSE 1 + RemovedPrefix(Tail(l), files \ {Head(l)})

\* lines 220-222: list(map(os.remove, res))
Cleanup ==
    /\ pc = "cleanup"
    /\ LET l == CleanupList(res, header_path)
           n == RemovedPrefix(l, fs)
           gone == {l[k] : k \in 1..n}
       IN  /\ fs' = fs \ gone
           /\ removed' = gone
           /\ outcome' = IF n = Len(l) THEN "completed" ELSE "raised:remove"
    /\ pc' = "done"
    /\ UNCHANGED others
    /\ UNCHANGED <<cfg, regions, processes, completed, res, mergeArgs,
                   mergeStatus, indexStatus, hdrWrites>>

Next ==
    \/ ProcHeader
    \/ SetRegions
    \/ Submit
    \/ AfterLoop
    \/ Join
    \/ Collect
    \/ InlineCall
    \/ InlineReturn
    \/ Check
    \/ Merge
    \/ Index
    \/ Cleanup
    \/ \E i \in 1..Len(processes) : WorkerStart(i)
    \/ \E i \in 1..Len(processes) : RunCmd(i)
    \/ \E i \in 1..Len(processes) : RunSort(i)
    \/ \E i \in 1..Len(processes) : RemoveUnsorted(i)

Spec == Init /\ [][Next]_vars

TypeOK ==
    /\ pc \in {"idle", "header", "resolve", "submit", "join", "collect", "inline",
               "inline_wait", "check", "merge", "index", "cleanup", "done"}
    /\ \A i \in 1..Len(processes) : processes[i].st \in JobStates
    /\ outcome \in {"running", "completed", "threads_failed"} \cup RaisedOutcomes
    /\ mergeStatus \in {"none", "ok", "failed"}
    /\ indexStatus \in {"none", "ok", "failed"}
    /\ hdrWrites \in Nat

\* ------------------------------------------------------------------- main
allvars == <<vars, others>>

\* utils_wgbs.validate_local_exe: a missing tool is fatal
validate_local_exe(tool_ok) == [raised |-> ~tool_ok]

\* bam2pat.validate_bam: false for a missing or invalid bam file
validate_bam(bam) == bam.valid

\* BamMethylData.validate_input: the result of validate_bam is not looked
\* at; an output directory that is no directory raises
validate_inputNoDirCheck(bam, out_dir_ok) == [raised |-> FALSE]
validate_input(bam, out_dir_ok) == [raised |-> ~out_dir_ok]

\* the inputs of the run of one bam file under main's arguments
CfgOf(args, bam) ==
    [region_str |-> args.region_str, threads |-> args.threads,
     ref_chroms |-> args.ref_chroms, idxstats_ok |-> bam.idxstats_ok,
     bam_chroms |-> bam.bam_chroms]

\* no bam file is being processed
NoBam == [valid |-> FALSE, idxstats_ok |-> FALSE, bam_chroms |-> {}]

\* bam files main may be given: missing or valid, contig listing failing or
\* not, holding a contig the reference knows or one it does not
MainBams ==
    [valid : BOOLEAN, idxstats_ok : BOOLEAN,
     bam_chroms : {{ContigNames[1]}, {ContigNames[NumContigs]}}]

MainArgs ==
    [region_str : {None} \cup ExplicitRegions, threads : {1},
     ref_chroms : {{ContigNames[1]}}]

MainInit ==
    /\ \E n \in 1..MaxFiles :
       \E b \in [1..n -> MainBams], a \in MainArgs,
          tool \in BOOLEAN, dir \in BOOLEAN :
           /\ mainSt = [pc |-> "start", bams |-> b, args |-> a,
                        tool_ok |-> tool, out_dir_ok |-> dir, cur |-> 0,
                        exit |-> "running",
                        status |-> [k \in 1..n |-> "pending"]]
           /\ cfg = CfgOf(a, NoBam)
    /\ pc = "idle"
    /\ fs = {}
    /\ regions = <<>>
    /\ processes = <<>>
    /\ completed = <<>>
    /\ res = <<>>
    /\ outcome = "running"
    /\ mergeArgs = <<>>
    /\ mergeStatus = "none"
    /\ indexStatus = "none"
    /\ removed = {}
    /\ hdrWrites = 0
    /\ view = ViewIdle
    /\ beta = BetaIdle

\* main line 245: validate_local_exe(add_cpg_count_tool)
MainValidateExe ==
    /\ mainSt.pc = "start"
    /\ IF validate_local_exe(mainSt.tool_ok).raised
       THEN mainSt' = [mainSt EXCEPT !.pc = "exit", !.exit = "nonzero"]
       ELSE mainSt' = [mainSt EXCEPT !.pc = "loop"]
    /\ UNCHANGED <<vars, view, beta>>

\* main lines 246-249: an invalid bam file is skipped
MainSkip ==
    /\ mainSt.pc = "loop"
    /\ mainSt.cur < Len(mainSt.bams)
    /\ ~validate_bam(mainSt.bams[mainSt.cur + 1])
    /\ mainSt' = [mainSt EXCEPT !.cur = @ + 1,
                                !.status[mainSt.cur + 1] = "skipped"]
    /\ UNCHANGED <<vars, view, beta>>

\* main line 250: BamMethylData(args, bam), then start_threads begins; the
\* paths of the file system are those under the current bam file's name
MainConstruct ==
    /\ mainSt.pc = "loop"
    /\ mainSt.cur < Len(mainSt.bams)
    /\ LET k == mainSt.cur + 1
           bam == mainSt.bams[k]
       IN  /\ validate_bam(bam)
           /\ IF validate_input(bam, mainSt.out_dir_ok).raised
              THEN /\ mainSt' = [mainSt EXCEPT !.pc = "exit",
                                               !.exit = "nonzero",
                                               !.cur = k,
                                               !.status[k] = "raised:validate_input"]
                   /\ UNCHANGED vars
              ELSE /\ mainSt' = [mainSt EXCEPT !.pc = "run", !.cur = k,
                                               !.status[k] = "started"]
                   /\ cfg' = CfgOf(mainSt.args, bam)
                   /\ pc' = "header"
                   /\ fs' = {}
                   /\ regions' = <<>>
                   /\ processes' = <<>>
                   /\ completed' = <<>>
                   /\ res' = <<>>
                   /\ outcome' = "running"
                   /\ mergeArgs' = <<>>
                   /\ mergeStatus' = "none"
                   /\ indexStatus' = "none"
                   /\ removed' = {}
                   /\ hdrWrites' = 0
    /\ UNCHANGED <<view, beta>>

\* main line 250: start_threads returns, or its exception leaves main
MainReturn ==
    /\ mainSt.pc = "run"
    /\ pc = "done"
    /\ IF outcome \in RaisedOutcomes
       THEN mainSt' = [mainSt EXCEPT !.pc = "exit", !.exit = "nonzero",
                                    !.status[mainSt.cur] = outcome]
       ELSE mainSt' = [mainSt EXCEPT !.pc = "loop",
                                    !.status[mainSt.cur] = outcome]
    /\ UNCHANGED <<vars, view, beta>>

\* main: the loop of line 246 is over
MainEnd ==
    /\ mainSt.pc = "loop"
    /\ mainSt.cur = Len(mainSt.bams)
    /\ mainSt' = [mainSt EXCEPT !.pc = "exit", !.exit = "zero"]
    /\ UNCHANGED <<vars, view, beta>>

MainNext ==
    \/ MainValidateExe
    \/ MainSkip
    \/ MainConstruct
    \/ MainReturn
    \/ MainEnd
    \/ Next

MainSpec == MainInit /\ [][MainNext]_allvars

\* ------------------------------------------------------------------ cview
\* exit status of a process killed by SIGPIPE, as the shell reports it
SIGPIPE_STATUS == 141

\* exit statuses a stage of the pipeline may end with
ExitCodes == {0, 1, SIGPIPE_STATUS}

\* start_threads is not running
RunIdle ==
    /\ cfg = CfgOf([region_str |-> None, threads |-> 1, ref_chroms |-> {}], NoBam)
    /\ pc = "idle"
    /\ fs = {}
    /\ regions = <<>>
    /\ processes = <<>>
    /\ completed = <<>>
    /\ res = <<>>
    /\ outcome = "running"
    /\ mergeArgs = <<>>
    /\ mergeStatus = "none"
    /\ indexStatus = "none"
    /\ removed = {}
    /\ hdrWrites = 0

\* view_gr lines 29-47: the stages of the pipeline, in order
view_gr(args) ==
    (IF args.whole THEN <<"gunzip">> ELSE <<"tabix">>)
    \o <<"cview_tool">>
    \o (IF args.sub_sample THEN <<"pat_sampler">> ELSE <<>>)
    \o (IF ~args.whole THEN <<"sort">> ELSE <<>>)
    \o <<"collapse_pat_script">>

\* view_bed lines 73-86: the stages of the pipeline, in order
view_bed(args) ==
    (IF args.long_bed
     THEN <<"gunzip">>
     ELSE <<"cat">> \o <<"cview_extend_blocks_script", "tabix">>)
    \o <<"cview_tool">>
    \o (IF args.sub_sample THEN <<"pat_sampler">> ELSE <<>>)
    \o <<"sort", "collapse_pat_script">>

\* cview lines 92-96
cview(args) == IF args.bed_file THEN view_bed(args) ELSE view_gr(args)

\* "sh -c" on a pipeline: the exit status is the one of the last stage
ShellStatus(code) == code[Len(code)]

\* subprocess.check_call: CalledProcessError on a non-zero status
check_call(status) == [raised |-> status # 0, returncode |-> status]

\* subprocess_wrap_sigpipe lines 13-18
subprocess_wrap_sigpipe(status) ==
    LET e == check_call(status)
    IN  [raised |-> e.raised /\ e.returncode # SIGPIPE_STATUS]

ViewArgs ==
    [bed_file : BOOLEAN, whole : BOOLEAN, long_bed : BOOLEAN,
     sub_sample : BOOLEAN, sampler_ok : BOOLEAN]

ViewInit ==
    /\ \E a \in ViewArgs :
           view = [pc |-> "start", args |-> a, cmd |-> <<>>, code |-> <<>>,
                   exited |-> {}, raised |-> "none"]
    /\ RunIdle
    /\ mainSt = MainIdle
    /\ beta = BetaIdle

\* view_gr / view_bed up to the call of subprocess_wrap_sigpipe: the command
\* is built (validate_local_exe(pat_sampler) may raise) and the shell starts
\* every stage of the pipeline
ViewCall ==
    /\ view.pc = "start"
    /\ IF view.args.sub_sample /\ validate_local_exe(view.args.sampler_ok).raised
       THEN view' = [view EXCEPT !.pc = "done", !.raised = "validate_local_exe"]
       ELSE view' = [view EXCEPT !.pc = "shell",
                                 !.cmd = cview(view.args),
                                 !.code = [i \in 1..Len(cview(view.args)) |-> 0]]
    /\ UNCHANGED <<vars, mainSt, beta>>

\* one stage of the pipeline exits with some status
StageExit ==
    /\ view.pc = "shell"
    /\ \E i \in (1..Len(view.cmd)) \ view.exited, c \in ExitCodes :
           view' = [view EXCEPT !.code[i] = c, !.exited = @ \cup {i}]
    /\ UNCHANGED <<vars, mainSt, beta>>

\* every stage has exited: check_call returns or raises, and
\* subprocess_wrap_sigpipe re-raises unless the status is 141
ViewReturn ==
    /\ view.pc = "shell"
    /\ view.exited = 1..Len(view.cmd)
    /\ view' = [view EXCEPT
                   !.pc = "done",
                   !.raised = IF subprocess_wrap_sigpipe(ShellStatus(view.code)).raised
                              THEN "CalledProcessError" ELSE "none"]
    /\ UNCHANGED <<vars, mainSt, beta>>

ViewNext ==
    \/ ViewCall
    \/ StageExit
    \/ ViewReturn

ViewSpec == ViewInit /\ [][ViewNext]_allvars

\* ----------------------------------------------------------------- beta2bw
\* number of CpG sites of the region the reference table is loaded for
NumSites == 2
\* largest number of beta files on beta2bw's command line
MaxBetaFiles == 2
\* line 125: beta2vec(barr, na=-1)
na == -1
\* line 125: np.round(..., 3) keeps thousandths
Milli == 1000

\* rows of a beta file, <<meth, total>>: no coverage, unmethylated, half
BetaRows == {<<0, 0>>, <<0, 1>>, <<1, 2>>}

\* utils_wgbs.delete_or_skip: false when the output exists and --force is off
delete_or_skip(exists, force) == ~exists \/ force

\* utils_wgbs.load_beta_data2: one row per site of the region
load_beta_data2(file) == file.barr

\* utils_wgbs.beta2vec followed by np.round(.., 3), in thousandths: meth/total,
\* or na for a site with less than one observation
beta2vec(barr, missing) ==
    [i \in 1..Len(barr) |->
        IF barr[i][2] < 1
        THEN missing * Milli
        ELSE ((2 * Milli * barr[i][1]) \div barr[i][2] + 1) \div 2]

\* load_dict lines 33-48: one row per site, columns chr, start, end
load_dict == [rows |-> [i \in 1..NumSites |-> i], cols |-> <<"chr", "start", "end">>]

\* load_beta lines 67-71: the shape assertion
load_beta(file, ref_dict) ==
    [raised |-> Len(load_beta_data2(file)) # Len(ref_dict.rows),
     barr |-> load_beta_data2(file)]

\* df[mask]: the rows of the frame whose position satisfies the mask
FilterRows(ref_dict, keep) ==
    LET F[n \in 0..Len(ref_dict.rows)] ==
            IF n = 0 THEN <<>>
            ELSE IF keep[n] THEN Append(F[n - 1], ref_dict.rows[n]) ELSE F[n - 1]
    IN  [ref_dict EXCEPT !.rows = F[Len(ref_dict.rows)]]

\* lines 125-129: the beta column is set, the frame is replaced by its
\* filtered copy under --remove_nan, dumped, and the column is deleted
DumpBeta(ref_dict, barr, remove_nan) ==
    LET vec == beta2vec(barr, na)
        withBeta == [ref_dict EXCEPT !.cols = Append(@, "beta")]
        kept == IF remove_nan
                THEN FilterRows(withBeta, [i \in 1..Len(vec) |-> vec[i] # na * Milli])
                ELSE withBeta
    IN  [kept EXCEPT !.cols = SelectSeq(@, LAMBDA c : c # "beta")]

BetaFiles == [barr : [1..NumSites -> BetaRows], exists : BOOLEAN]

BetaArgs == [force : BOOLEAN, remove_nan : BOOLEAN, dump_cov : BOOLEAN]

BetaInit ==
    /\ \E n \in 1..MaxBetaFiles :
       \E p \in [1..n -> BetaFiles], a \in BetaArgs, dir \in BOOLEAN :
           beta = [pc |-> "start", args |-> a, outdir_ok |-> dir,
                   beta_paths |-> p, cur |-> 0,
                   ref_dict |-> [rows |-> <<>>, cols |-> <<>>],
                   status |-> [k \in 1..n |-> "pending"],
                   exit |-> "running"]
    /\ RunIdle
    /\ mainSt = MainIdle
    /\ view = ViewIdle

\* main line 171, __init__ lines 22-31
BetaConstruct ==
    /\ beta.pc = "start"
    /\ IF ~beta.outdir_ok
       THEN beta' = [beta EXCEPT !.pc = "exit", !.exit = "raised:IllegalArgumentError"]
       ELSE beta' = [beta EXCEPT !.pc = "loop", !.ref_dict = load_dict]
    /\ UNCHANGED <<vars, mainSt, view>>

\* main lines 172-173, run_beta_to_bw lines 98-132 on the next file;
\* bedGraphToBigWig (lines 121, 132) may fail
RunBetaToBw ==
    /\ beta.pc = "loop"
    /\ beta.cur < Len(beta.beta_paths)
    /\ LET k == beta.cur + 1
           file == beta.beta_paths[k]
           loaded == load_beta(file, beta.ref_dict)
       IN  IF ~delete_or_skip(file.exists, beta.args.force)
           THEN beta' = [beta EXCEPT !.cur = k, !.status[k] = "skipped"]
           ELSE IF loaded.raised
           THEN beta' = [beta EXCEPT !.cur = k, !.pc = "exit",
                                     !.status[k] = "raised:AssertionError",
                                     !.exit = "raised:AssertionError"]
           ELSE \E cov_ok \in BOOLEAN, bw_ok \in BOOLEAN :
                  IF beta.args.dump_cov /\ ~cov_ok
                  THEN beta' = [beta EXCEPT !.cur = k, !.pc = "exit",
                                            !.status[k] = "raised:CalledProcessError",
                                            !.exit = "raised:CalledProcessError"]
                  ELSE beta' = [beta EXCEPT
                          !.cur = k,
                          !.ref_dict = DumpBeta(beta.ref_dict, loaded.barr,
                                                beta.args.remove_nan),
                          !.pc = IF bw_ok THEN "loop" ELSE "exit",
                          !.status[k] = IF bw_ok THEN "written"
                                        ELSE "raised:CalledProcessError",
                          !.exit = IF bw_ok THEN "running"
                                   ELSE "raised:CalledProcessError"]
    /\ UNCHANGED <<vars, mainSt, view>>

\* main: the loop of line 172 is over
BetaEnd ==
    /\ beta.pc = "loop"
    /\ beta.cur = Len(beta.beta_paths)
    /\ beta' = [beta EXCEPT !.pc = "exit", !.exit = "zero"]
    /\ UNCHANGED <<vars, mainSt, view>>

BetaNext ==
    \/ BetaConstruct
    \/ RunBetaToBw
    \/ BetaEnd

BetaSpec == BetaInit /\ [][BetaNext]_allvars

\* ----------------------------------------------------------------- claims
MultiRegion == cfg.region_str = None
AnyJobFailed == \E i \in 1..Len(processes) : processes[i].st = "raised"
AllJobsTerminal == \A i \in 1..Len(processes) : processes[i].st \in Terminal
MergeRan == mergeStatus # "none"
IndexRan == indexStatus # "none"
Artifacts == {out_path(processes[i].out_path_name) : i \in 1..Len(processes)}

\* C1: once a region job has failed, neither the merge nor the index command
\* is ever executed and no file exists at final_path, up to and including
\* the end of the run.
C1_NoMergeAfterJobFailure ==
    AnyJobFailed =>
        /\ ~MergeRan
        /\ ~IndexRan
        /\ final_path(cfg.region_str) \notin fs

\* C1 witness: a run has ended in which one job failed and a sibling succeeded
C1_Witness ==
    /\ pc = "done"
    /\ AnyJobFailed
    /\ \E i \in 1..Len(processes) : processes[i].st = "returned"

\* C2: whatever the order in which the pool's jobs complete, the artifacts
\* handed to the merge command are those of the regions returned by
\* set_regions, in that order, which is the canonical contig order.
C2_MergeOrderIsRegionOrder ==
    (MultiRegion /\ MergeRan) =>
        /\ Len(mergeArgs) = Len(regions)
        /\ \A k \in 1..Len(regions) :
               mergeArgs[k] = out_path(name \o <<"_">> \o regions[k])
        /\ \A j, k \in 1..Len(regions) :
               j < k => chromosome_order(regions[j]) < chromosome_order(regions[k])

\* C2 witness: the merge ran although a later region finished first
C2_Witness ==
    /\ MultiRegion
    /\ MergeRan
    /\ Len(completed) >= 2
    /\ completed[1] > completed[2]

\* C3: a per-region artifact or the header is deleted only in a run whose
\* merge command and index command both succeeded.
C3_DeleteOnlyAfterMergeAndIndex ==
    removed # {} => (mergeStatus = "ok" /\ indexStatus = "ok")

\* C4: a run whose merge or index command exited non-zero does not end as a
\* completed run; it completes only with the output merged and indexed.
C4_FailedMergeOrIndexIsFailure ==
    (pc = "done" /\ outcome = "completed") =>
        (mergeStatus = "ok" /\ indexStatus = "ok")

\* C5: when every region job, the merge and the index succeeded, the run
\* ends with every per-region artifact and the header deleted and the final
\* artifact in place.
C5_SuccessCleansUp ==
    (/\ pc = "done"
     /\ processes # <<>>
     /\ \A i \in 1..Len(processes) : processes[i].st = "returned"
     /\ mergeStatus = "ok"
     /\ indexStatus = "ok") =>
        /\ outcome = "completed"
        /\ \A a \in Artifacts : a \notin fs
        /\ header_path \notin fs
        /\ final_path(cfg.region_str) \in fs

\* C5 witness: a fully successful run over at least two regions has ended
C5_Witness ==
    /\ pc = "done"
    /\ Len(processes) >= 2
    /\ \A i \in 1..Len(processes) : processes[i].st = "returned"
    /\ mergeStatus = "ok"
    /\ indexStatus = "ok"

\* the contig listing gave names, none of which the reference knows
EmptyIntersection ==
    /\ MultiRegion
    /\ cfg.idxstats_ok
    /\ cfg.bam_chroms # {}
    /\ cfg.bam_chroms \cap cfg.ref_chroms = {}

\* C6: with no explicit region and an empty intersection of the bam contigs
\* and the reference contigs, set_regions raises and no job is ever
\* submitted (a run whose header extraction failed never gets that far).
C6_EmptyIntersectionFails ==
    EmptyIntersection =>
        /\ processes = <<>>
        /\ pc \in {"header", "resolve", "done"}
        /\ pc = "done" => outcome \in {"raised:proc_header", "raised:set_regions"}

\* C6 witness: set_regions has raised on an empty intersection
C6_Witness ==
    /\ EmptyIntersection
    /\ pc = "done"
    /\ outcome = "raised:set_regions"

\* set_regions returns the empty list
ResolvedEmpty ==
    /\ MultiRegion
    /\ LET r == set_regions(cfg.region_str, cfg.idxstats_ok, cfg.bam_chroms,
                            cfg.ref_chroms)
       IN  ~r.raised /\ r.val = <<>>

\* C7: when the resolved region list is empty, start_threads raises the
\* empty-input error with no job submitted and no merge, index or removal.
C7_EmptyRegionListFails ==
    ResolvedEmpty =>
        /\ processes = <<>>
        /\ ~MergeRan
        /\ ~IndexRan
        /\ removed = {}
        /\ pc \in {"header", "resolve", "submit", "done"}
        /\ pc = "done" => outcome \in {"raised:proc_header", "raised:empty"}

\* C7 witness: the empty-input error was raised after a failed contig listing
C7_Witness ==
    /\ ResolvedEmpty
    /\ ~cfg.idxstats_ok
    /\ pc = "done"
    /\ outcome = "raised:empty"

\* C8: in the multi-region path the coordinator is past the join (collecting
\* results, merging, or ended by an exception) only when every dispatched job
\* has returned or raised.
C8_InspectAfterAllJobsTerminal ==
    (MultiRegion /\ pc \notin {"header", "resolve", "submit", "join"}) =>
        AllJobsTerminal

\* C8 witness: the run was aborted on a failure, and the first job to fail
\* had a sibling that finished after it
C8_Witness ==
    /\ MultiRegion
    /\ pc = "done"
    /\ outcome = "raised:get"
    /\ Len(completed) >= 2
    /\ processes[completed[1]].st = "raised"

\* C9: when a job's pipeline fails, the result list holds one entry per job,
\* the failed job's entry is None, and the run ends at the sentinel check.
C9_FailureReturnsSentinel ==
    (pc = "done" /\ AnyJobFailed) =>
        /\ outcome = "threads_failed"
        /\ Len(res) = Len(processes)
        /\ \A i \in 1..Len(processes) :
               processes[i].st = "raised" => res[i] = None

JobActive(st) == st \in InFlight \cup {"queued"}

\* C10: the header is written at most once, it has been written completely
\* before any job is submitted or started, and no step writes or deletes it
\* while a job is queued or running.
C10_HeaderWrittenOnceBeforeJobs ==
    /\ [](/\ hdrWrites <= 1
          /\ (processes # <<>>) => (hdrWrites = 1)
          /\ (\E i \in 1..Len(processes) : JobActive(processes[i].st)) =>
                 (header_path \in fs))
    /\ [][(\E i \in 1..Len(processes) : JobActive(processes[i].st)) =>
             (/\ hdrWrites' = hdrWrites
              /\ (header_path \in fs') = (header_path \in fs))]_vars

\* C10 witness: two jobs run at once, reading the header written before them
C10_Witness ==
    /\ hdrWrites = 1
    /\ header_path \in fs
    /\ Cardinality({i \in 1..Len(processes) : processes[i].st \in InFlight}) >= 2

\* C12: in a multi-region run the number of jobs whose pipeline is executing
\* never exceeds args.threads.
C12_RunningBoundedByThreads ==
    MultiRegion => NumRunning <= cfg.threads

\* C12 witness: the pool is full and a submitted job waits for a free worker
C12_Witness ==
    /\ MultiRegion
    /\ cfg.threads >= 2
    /\ NumRunning = cfg.threads
    /\ \E i \in 1..Len(processes) : processes[i].st = "queued"

UnsortedOf(i) == unsorted_bam(processes[i].out_path_name)
ArtifactOf(i) == out_path(processes[i].out_path_name)

\* C14: within one job the sort starts only after the pipeline has written
\* the unsorted artifact, the removal starts only after the sort has written
\* the per-region artifact, the unsorted artifact disappears only once the
\* job's sort has succeeded, and the job returns only with its unsorted
\* artifact gone.
C14_JobStepOrder ==
    /\ [](\A i \in 1..Len(processes) :
              processes[i].st = "sort" => UnsortedOf(i) \in fs)
    /\ [][\A i \in 1..Len(processes) :
            LET st == processes[i].st
                st2 == processes'[i].st
            IN  /\ (st2 = "sort" /\ st # "sort") =>
                       (st = "cmd" /\ UnsortedOf(i) \in fs')
                /\ (st2 = "rm" /\ st # "rm") =>
                       (st = "sort" /\ UnsortedOf(i) \in fs /\ ArtifactOf(i) \in fs')
                /\ (UnsortedOf(i) \in fs /\ UnsortedOf(i) \notin fs') =>
                       st \in {"rm", "returned"}
                /\ (st2 = "returned" /\ st # "returned") =>
                       (st = "rm" /\ UnsortedOf(i) \notin fs')]_vars

\* C14 witness: a job has returned, its artifact is there, its unsorted file not
C14_Witness ==
    \E i \in 1..Len(processes) :
        /\ processes[i].st = "returned"
        /\ ArtifactOf(i) \in fs
        /\ UnsortedOf(i) \notin fs

C16_ExplicitRegionRunsInline ==
    ~MultiRegion =>
        /\ pc \notin {"resolve", "submit", "join", "collect"}
        /\ regions = <<>>
        /\ Len(processes) <= 1
        /\ \A i \in 1..Len(processes) :
               /\ processes[i].st \notin {"queued", "killed"}
               /\ processes[i].region = cfg.region_str
        /\ MergeRan => mergeArgs = <<out_path(name \o <<"_", "1">>)>>
        /\ (pc = "done" /\ processes # <<>> /\ ~AnyJobFailed) =>
               /\ MergeRan
               /\ IndexRan
               /\ outcome = "completed"
               /\ removed = {out_path(name \o <<"_", "1">>), header_path}

\* C16 witness: an explicit-region run has ended merged, indexed, cleaned up
C16_Witness ==
    /\ ~MultiRegion
    /\ pc = "done"
    /\ outcome = "completed"
    /\ mergeStatus = "ok"
    /\ indexStatus = "ok"

\* the regions the run resolved
Resolved == IF MultiRegion THEN regions ELSE <<cfg.region_str>>

\* progress of a job: it only ever moves forward
Rank(st) ==
    CASE st = "queued" -> 0
      [] st = "cmd" -> 1
      [] st = "sort" -> 2
      [] st = "rm" -> 3
      [] OTHER -> 4

\* C17: the jobs are those of the resolved regions, one each and in order,
\* no region has two jobs, and a job never goes back to an earlier step: once
\* it has returned or raised it stays so (no retry, no re-submission).
C17_OneJobPerRegionNoRetry ==
    /\ [](/\ Len(processes) <= Len(Resolved)
          /\ \A i \in 1..Len(processes) : processes[i].region = Resolved[i]
          /\ \A i, j \in 1..Len(processes) :
                 i # j => processes[i].region # processes[j].region
          /\ pc \in {"join", "collect", "check", "merge", "index", "cleanup"} =>
                 Len(processes) = Len(Resolved))
    /\ [][\A i \in 1..Len(processes) :
            /\ Len(processes') >= Len(processes)
            /\ processes'[i].region = processes[i].region
            /\ Rank(processes'[i].st) >= Rank(processes[i].st)
            /\ processes[i].st \in Terminal =>
                   processes'[i].st = processes[i].st]_vars

\* C17 witness: a run over two or more regions ended with a failed job
C17_Witness ==
    /\ pc = "done"
    /\ Len(processes) >= 2
    /\ Len(processes) = Len(Resolved)
    /\ AnyJobFailed

JobPaths(i) == {UnsortedOf(i), ArtifactOf(i)}

\* C19: the paths a run writes are pairwise distinct: two jobs share neither
\* unsorted nor per-region artifact, and no job path is the header path or
\* the final path.
C19_PathsPairwiseDistinct ==
    /\ \A i, j \in 1..Len(processes) :
           i # j => JobPaths(i) \cap JobPaths(j) = {}
    /\ \A i \in 1..Len(processes) :
           /\ UnsortedOf(i) # ArtifactOf(i)
           /\ header_path \notin JobPaths(i)
           /\ final_path(cfg.region_str) \notin JobPaths(i)
    /\ header_path # final_path(cfg.region_str)

Ended == mainSt.exit # "running"
ResolutionErrors == {"raised:set_regions", "raised:empty"}
NumBams == Len(mainSt.bams)

\* C11: when main has ended and some bam file ran into a resolution error,
\* every valid bam file after it has been processed.
C11_LaterFilesStillProcessed ==
    Ended =>
        \A k \in 1..NumBams :
            mainSt.status[k] \in ResolutionErrors =>
                \A j \in (k + 1)..NumBams :
                    mainSt.bams[j].valid => mainSt.status[j] # "pending"

ConfigError ==
    \/ ~mainSt.tool_ok
    \/ ~mainSt.out_dir_ok
    \/ \E k \in 1..NumBams : ~mainSt.bams[k].valid

ViewEnded == view.pc = "done" /\ view.cmd # <<>>

\* C18: when the view command's pipeline has ended, the command failed
\* exactly when some stage ended with a status other than zero and other
\* than the broken-pipe code 141.
C18_StageFailurePropagates ==
    ViewEnded =>
        ((view.raised = "CalledProcessError") <=>
             \E i \in 1..Len(view.code) : view.code[i] \notin {0, SIGPIPE_STATUS})

\* the BetaToBigWig instance is constructed and no call is under way: the
\* constructor or a run_beta_to_bw call has returned
BetweenCalls == beta.pc = "loop" \/ beta.exit = "zero"

\* C20: after construction and after every run_beta_to_bw call, ref_dict has
\* the rows and the columns load_dict gave it, and no file of the sequence
\* fails the shape assertion of load_beta.
C20_RefDictPreserved ==
    /\ BetweenCalls => beta.ref_dict = load_dict
    /\ \A k \in 1..Len(beta.beta_paths) :
           beta.status[k] # "raised:AssertionError"
====
